---- MODULE Spec2Model ----
(***************************************************************************)
(* Agent lifecycle client of sonoma-labs-toolkit: the Agent handle         *)
(* (core/Agent.ts), the retried gateway calls of Connection                *)
(* (core/Connection.ts), the event channels inherited from EventEmitter    *)
(* and the remote agent account the commands act on.                       *)
(***************************************************************************)
EXTENDS Integers, Sequences, FiniteSets, TLC

VARIABLES
    remote,     \* the authoritative agent account held by the remote program
    account,    \* Agent.account: the handle's current snapshot
    calls,      \* per caller: the Agent operation in progress and its locals
    gw,         \* per caller: the Connection call in progress (retry loop)
    subs,       \* per channel: the registered subscribers, in registration order
    emitted,    \* the notifications published by the latest publishing step
    lastFetch,  \* the snapshot returned by the handle's latest successful fetch
    nops,       \* number of Agent operations started so far
    nremote,    \* number of changes other parties made to the remote account
    ledger,     \* per address: the agent account the remote program holds there
    loader,     \* the Agent.create / Agent.load call in progress
    handles,    \* the handles Agent.create and Agent.load have returned
    conn,       \* Connection: the socket and the subscriptions opened on it
    cfg,        \* the latest validateConfig call: its argument and its result
    trail       \* the latest stateChange published by the handle

\* the state outside the one handle and its gateway calls
others == <<ledger, loader, handles, conn, cfg>>

\* the state no step but the completion of a refresh changes
rest == <<others, trail>>

vars ==
    <<remote, account, calls, gw, subs, emitted, lastFetch, nops, nremote,
      ledger, loader, handles, conn, cfg, trail>>

----------------------------------------------------------------------------
(* Bounds of the exploration *)

\* total number of Agent operations started in one behaviour
MaxOps == 2

\* subscribers registered over all channels
MaxSubs == 2

\* cap of the remote execution counter
MaxExec == 2

\* changes made to the remote account by other parties
MaxRemote == 1

\* the callers whose operations may overlap on the one handle
Callers == {"c1", "c2"}

----------------------------------------------------------------------------
(* Types *)

AgentState ==
    {"uninitialized", "initialized", "running", "paused", "error", "terminated"}

Channels == {"stateChange", "execution", "error"}

\* configuration of the usage example
ExampleConfig ==
    [autonomousMode |-> TRUE, executionLimit |-> 1000,
     memoryLimit |-> 10485760, capabilities |-> {"compute", "storage"}]

\* the partial configurations handed to updateConfig
Partials ==
    { [executionLimit |-> 2000], [memoryLimit |-> 20971520] }

Payloads == {"example action"}

\* the account as the initialize command leaves it
InitialAccount ==
    [publicKey |-> "addr1", state |-> "initialized", config |-> ExampleConfig,
     executionCount |-> 0, totalExecutions |-> 0, successfulExecutions |-> 0]

NoError == [msg |-> "none", cause |-> "none"]

SonomaError(message, causeErr) == [msg |-> message, cause |-> causeErr.msg]

PlainError(message) == [msg |-> message, cause |-> "none"]

----------------------------------------------------------------------------
(* The remote program: which commands it accepts and what they do *)

Accepts(acc, cmd) ==
    CASE cmd.op = "execute" ->
            acc.state \in {"initialized", "running"} /\ acc.executionCount < MaxExec
      [] cmd.op = "pause" -> acc.state = "running"
      [] cmd.op = "resume" -> acc.state \in {"initialized", "paused"}
      [] cmd.op = "update" -> acc.state \notin {"terminated", "uninitialized"}
      [] OTHER -> TRUE

Apply(acc, cmd) ==
    CASE cmd.op = "execute" ->
            [acc EXCEPT !.state = "running",
                        !.executionCount = @ + 1,
                        !.totalExecutions = @ + 1,
                        !.successfulExecutions = @ + 1]
      [] cmd.op = "pause" -> [acc EXCEPT !.state = "paused"]
      [] cmd.op = "resume" -> [acc EXCEPT !.state = "running"]
      [] cmd.op = "update" -> [acc EXCEPT !.config = cmd.config]
      [] OTHER -> acc

----------------------------------------------------------------------------
(* Connection: the retried gateway calls *)

SendMaxAttemptsShort == 3 - 1

SendMaxAttempts == 3

AccountsMaxAttempts == 3

ProgramAccountsMaxAttempts == 3

GwMethods == {"sendAndConfirmTransaction", "getMultipleAccounts", "getProgramAccounts"}

maxAttemptsOf(method) ==
    CASE method = "sendAndConfirmTransaction" -> SendMaxAttempts
      [] method = "getMultipleAccounts" -> AccountsMaxAttempts
      [] OTHER -> ProgramAccountsMaxAttempts

\* the message of the SonomaError each wrapped operation throws on any failure
WrapperOf(method) ==
    CASE method = "sendAndConfirmTransaction" -> "Transaction failed"
      [] method = "getMultipleAccounts" -> "Failed to fetch accounts"
      [] OTHER -> "Failed to fetch program accounts"

FirstStep(method) ==
    IF method = "sendAndConfirmTransaction" THEN "submit" ELSE "query"

GwIdle ==
    [method |-> "none", pc |-> "idle", attempt |-> 0, fails |-> 0,
     cmd |-> [op |-> "none"], hasSigner |-> TRUE, accepted |-> 0,
     err |-> NoError]

GwStart(method, cmd, hasSigner) ==
    [method |-> method, pc |-> FirstStep(method), attempt |-> 1, fails |-> 0,
     cmd |-> cmd, hasSigner |-> hasSigner, accepted |-> 0, err |-> NoError]

\* the failure classes the retry executor never retries
NonTransientClasses == {"InvalidParameters", "InvalidStateTransition"}

\* the failure classes a caller would expect to end the call at once
NonTransientCauses == NonTransientClasses \cup {"sign"}

\* retry(): what follows an attempt that threw err
RetryAfterFailure(g, err) ==
    IF err.msg \in NonTransientClasses
    THEN [g EXCEPT !.pc = "threw", !.err = err]
    ELSE IF g.attempt < maxAttemptsOf(g.method)
         THEN [g EXCEPT !.pc = FirstStep(g.method), !.attempt = @ + 1]
         ELSE [g EXCEPT !.pc = "threw", !.err = err]

\* the catch of the wrapped operation: every failure becomes one SonomaError
AttemptThrows(g, cause) ==
    RetryAfterFailure([g EXCEPT !.fails = @ + 1],
                      SonomaError(WrapperOf(g.method), PlainError(cause)))

\* how lines 64-76 can end: sign() throws when no signer is given
SubmitOutcomes(hasSigner) ==
    IF hasSigner THEN {"transport", "sent"} ELSE {"transport", "sign"}

\* One attempt up to sendRawTransaction: freshness token, signing, submission.
GwSubmit(c) ==
    /\ gw[c].pc = "submit"
    /\ \E outcome \in SubmitOutcomes(gw[c].hasSigner) :
         /\ outcome = "sent" => Accepts(remote, gw[c].cmd)
         /\ IF outcome = "sent"
            THEN /\ remote' = Apply(remote, gw[c].cmd)
                 /\ gw' = [gw EXCEPT ![c].pc = "confirm", ![c].accepted = @ + 1]
            ELSE /\ gw' = [gw EXCEPT ![c] = AttemptThrows(gw[c], outcome)]
                 /\ UNCHANGED remote
    /\ UNCHANGED <<rest, account, calls, subs, emitted, lastFetch, nops, nremote>>

\* confirmTransaction of the submitted signature
GwConfirm(c) ==
    /\ gw[c].pc = "confirm"
    /\ \/ gw' = [gw EXCEPT ![c].pc = "returned"]
       \/ gw' = [gw EXCEPT ![c] = AttemptThrows(gw[c], "confirm")]
    /\ UNCHANGED <<rest, remote, account, calls, subs, emitted, lastFetch, nops, nremote>>

\* One attempt of getMultipleAccounts / getProgramAccounts
GwQuery(c) ==
    /\ gw[c].pc = "query"
    /\ \/ gw' = [gw EXCEPT ![c].pc = "returned"]
       \/ gw' = [gw EXCEPT ![c] = AttemptThrows(gw[c], "transport")]
    /\ UNCHANGED <<rest, remote, account, calls, subs, emitted, lastFetch, nops, nremote>>

\* a direct call of a retried Connection method by a user of the gateway
GwCall(c) ==
    /\ gw[c].pc = "idle"
    /\ calls[c].pc = "idle"
    /\ \E method \in GwMethods, hasSigner \in BOOLEAN :
         /\ method # "sendAndConfirmTransaction" => hasSigner
         /\ gw' = [gw EXCEPT ![c] = GwStart(method, [op |-> "opaque"], hasSigner)]
    /\ UNCHANGED <<rest, remote, account, calls, subs, emitted, lastFetch, nops, nremote>>

\* the direct caller takes the value or the error
GwDone(c) ==
    /\ gw[c].pc \in {"returned", "threw"}
    /\ calls[c].pc = "idle"
    /\ gw' = [gw EXCEPT ![c] = GwIdle]
    /\ UNCHANGED <<rest, remote, account, calls, subs, emitted, lastFetch, nops, nremote>>

----------------------------------------------------------------------------
(* EventEmitter: synchronous delivery in registration order *)

Behaviours == {"ok", "throws"}

Min(S) == CHOOSE x \in S : \A y \in S : x <= y

\* emit(): the listeners are called in order, in a loop with no try/catch, so
\* the first one that throws ends the delivery and its exception leaves emit()
DeliveredTo(list) ==
    LET throwers == {i \in 1..Len(list) : list[i] = "throws"}
    IN  IF throwers = {} THEN 1..Len(list) ELSE 1..Min(throwers)

EmitThrows(list) == \E i \in 1..Len(list) : list[i] = "throws"

ListenerError == PlainError("listener")

\* one emit(chan, a1, a2) made while this.account is acct
Emit(chan, a1, a2, acct) ==
    [chan |-> chan, a1 |-> a1, a2 |-> a2,
     got |-> DeliveredTo(subs[chan]), n |-> Len(subs[chan]),
     threw |-> EmitThrows(subs[chan]), seen |-> acct.state]

NumSubs == Len(subs["stateChange"]) + Len(subs["execution"]) + Len(subs["error"])

\* agent.on(channel, listener)
On(ch, b) ==
    /\ NumSubs < MaxSubs
    /\ subs' = [subs EXCEPT ![ch] = Append(@, b)]
    /\ UNCHANGED <<rest, remote, account, calls, gw, emitted, lastFetch, nops, nremote>>

----------------------------------------------------------------------------
(* Agent *)

NoPartial == [f \in {} |-> 0]

OkResult == [ok |-> TRUE, err |-> NoError]

Failed(err) == [ok |-> FALSE, err |-> err]

CallIdle ==
    [op |-> "none", pc |-> "idle", partial |-> NoPartial, data |-> "none",
     cmd |-> [op |-> "none"], startState |-> "none", startConfig |-> ExampleConfig,
     oldState |-> "none", fetchOk |-> FALSE, fetched |-> InitialAccount,
     refreshed |-> FALSE, confirmed |-> FALSE, solo |-> FALSE,
     networked |-> FALSE, emits |-> 0, result |-> OkResult,
     prev |-> [op |-> "none", ok |-> FALSE, confirmed |-> FALSE,
               cmd |-> [op |-> "none"]]]

\* getState(), getConfig(), getMetrics(): reads of the current snapshot
getState == account.state

getConfig == account.config

getMetrics ==
    [totalExecutions |-> account.totalExecutions,
     successfulExecutions |-> account.successfulExecutions]

OverlayReplaces(base, partial) == partial

\* { ...this.account.config, ...config }
Overlay(base, partial) ==
    [f \in (DOMAIN base) \cup (DOMAIN partial) |->
        IF f \in DOMAIN partial THEN partial[f] ELSE base[f]]

PauseAllowedUnguarded(acct) == acct.state # "terminated"

\* the local precondition of pause()
PauseAllowed(acct) == acct.state = "running"

\* the local precondition of resume()
ResumeAllowed(acct) == acct.state = "paused"

GuardMessage(op) ==
    IF op = "pause" THEN "Agent must be running to pause"
    ELSE "Agent must be paused to resume"

FailMessage(op) ==
    CASE op = "updateConfig" -> "Failed to update agent configuration"
      [] op = "execute" -> "Failed to execute agent action"
      [] op = "pause" -> "Failed to pause agent"
      [] op = "resume" -> "Failed to resume agent"
      [] OTHER -> "Failed to refresh agent data"

\* a caller starts its next operation once the previous one has settled
CanStart(c) ==
    calls[c].pc \in {"idle", "done"} /\ gw[c].pc = "idle" /\ nops < MaxOps

\* no operation of another caller is in flight
Alone(c) == \A d \in Callers \ {c} : calls[d].pc \in {"idle", "done"}

\* the record of a new operation of c; prev keeps how c's previous one ended
Begin(c, op) ==
    [CallIdle EXCEPT !.op = op, !.pc = "build", !.startState = account.state,
                     !.startConfig = account.config, !.solo = Alone(c),
                     !.prev = [op |-> calls[c].op, ok |-> calls[c].result.ok,
                               confirmed |-> calls[c].confirmed,
                               cmd |-> calls[c].cmd]]

\* caller c starts an operation; the calls in flight are no longer alone
Started(c, rec) ==
    [d \in Callers |->
        IF d = c THEN rec
        ELSE IF calls[d].pc \in {"idle", "done"} THEN calls[d]
        ELSE [calls[d] EXCEPT !.solo = FALSE]]

\* the catch block of an operation: what it publishes and what it throws
OpCatch(op, err) ==
    IF op = "execute"
    THEN LET e == Emit("execution", FALSE, err, account)
         IN  [emits |-> <<e>>,
              result |-> IF e.threw THEN Failed(ListenerError)
                         ELSE Failed(SonomaError(FailMessage(op), err))]
    ELSE [emits |-> <<>>, result |-> Failed(SonomaError(FailMessage(op), err))]

GuardedSerialized(c, op, allowed) ==
    /\ CanStart(c)
    /\ nops' = nops + 1
    /\ IF allowed /\ Alone(c)
       THEN calls' = Started(c, [Begin(c, op) EXCEPT !.cmd = [op |-> op]])
       ELSE calls' = [calls EXCEPT ![c] =
                [Begin(c, op) EXCEPT !.pc = "done",
                                     !.result = Failed(PlainError(GuardMessage(op)))]]
    /\ UNCHANGED <<rest, remote, account, gw, subs, emitted, lastFetch, nremote>>

\* pause() and resume() up to the first await
Guarded(c, op, allowed) ==
    /\ CanStart(c)
    /\ nops' = nops + 1
    /\ IF allowed
       THEN calls' = Started(c, [Begin(c, op) EXCEPT !.cmd = [op |-> op]])
       ELSE calls' = [calls EXCEPT ![c] =
                [Begin(c, op) EXCEPT !.pc = "done",
                                     !.result = Failed(PlainError(GuardMessage(op)))]]
    /\ UNCHANGED <<rest, remote, account, gw, subs, emitted, lastFetch, nremote>>

Pause(c) == Guarded(c, "pause", PauseAllowed(account))

Resume(c) == Guarded(c, "resume", ResumeAllowed(account))

UpdateConfig(c) ==
    /\ CanStart(c)
    /\ nops' = nops + 1
    /\ \E partial \in Partials :
         calls' = Started(c,
            [Begin(c, "updateConfig") EXCEPT
                !.partial = partial,
                !.cmd = [op |-> "update", config |-> Overlay(account.config, partial)]])
    /\ UNCHANGED <<rest, remote, account, gw, subs, emitted, lastFetch, nremote>>

Execute(c) ==
    /\ CanStart(c)
    /\ nops' = nops + 1
    /\ \E data \in Payloads :
         calls' = Started(c,
            [Begin(c, "execute") EXCEPT !.data = data,
                                        !.cmd = [op |-> "execute", data |-> data]])
    /\ UNCHANGED <<rest, remote, account, gw, subs, emitted, lastFetch, nremote>>

\* refresh() called by the user: oldState is read before the fetch is awaited
Refresh(c) ==
    /\ CanStart(c)
    /\ nops' = nops + 1
    /\ calls' = Started(c,
            [Begin(c, "refresh") EXCEPT !.pc = "fetch", !.oldState = account.state])
    /\ UNCHANGED <<rest, remote, account, gw, subs, emitted, lastFetch, nremote>>

\* await program.create...Instruction(...): the command builder answers
Build(c) ==
    /\ calls[c].pc = "build"
    /\ \/ /\ calls' = [calls EXCEPT ![c].pc = "send", ![c].networked = TRUE]
          /\ gw' = [gw EXCEPT ![c] =
                GwStart("sendAndConfirmTransaction", calls[c].cmd, TRUE)]
          /\ UNCHANGED emitted
       \/ LET out == OpCatch(calls[c].op, PlainError("InvalidParameters"))
          IN  /\ calls' = [calls EXCEPT ![c].pc = "done", ![c].result = out.result]
              /\ emitted' = IF out.emits = <<>> THEN emitted ELSE out.emits
              /\ UNCHANGED gw
    /\ UNCHANGED <<rest, remote, account, subs, lastFetch, nops, nremote>>

RefreshCompareCurrent(acct, ok, snap, oldState) ==
    [account |-> IF ok THEN snap ELSE acct,
     notify |-> ok /\ acct.state # snap.state,
     current |-> IF ok THEN snap ELSE acct]

RefreshNotifyFirst(acct, ok, snap, oldState) ==
    [account |-> IF ok THEN snap ELSE acct,
     notify |-> ok /\ oldState # snap.state,
     current |-> acct]

RefreshClearsOnFailure(acct, ok, snap, oldState) ==
    [account |-> IF ok THEN snap ELSE [acct EXCEPT !.state = "uninitialized"],
     notify |-> ok /\ oldState # snap.state,
     current |-> IF ok THEN snap ELSE acct]

RefreshMarksError(acct, ok, snap, oldState) ==
    [account |-> IF ok THEN snap ELSE [acct EXCEPT !.state = "error"],
     notify |-> ok /\ oldState # snap.state,
     current |-> IF ok THEN snap ELSE acct]

RefreshSilentOnError(acct, ok, snap, oldState) ==
    [account |-> IF ok THEN snap ELSE acct,
     notify |-> ok /\ oldState # snap.state /\ snap.state # "error",
     current |-> IF ok THEN snap ELSE acct]

RefreshForgetsOnFailure(acct, ok, snap, oldState) ==
    [account |-> IF ok THEN snap
                 ELSE [acct EXCEPT !.state = "uninitialized", !.config = ExampleConfig],
     notify |-> ok /\ oldState # snap.state,
     current |-> IF ok THEN snap ELSE acct]

RefreshDropsCount(acct, ok, snap, oldState) ==
    [account |-> IF ok
                 THEN [snap EXCEPT !.executionCount =
                            IF oldState = snap.state THEN 0 ELSE @]
                 ELSE acct,
     notify |-> ok /\ oldState # snap.state,
     current |-> IF ok THEN snap ELSE acct]

\* what refresh() leaves once the fetch has answered: the fetched account
\* becomes this.account (line 165) before the states are compared (line 167),
\* and a fetch that throws skips both
RefreshComplete(acct, ok, snap, oldState) ==
    [account |-> IF ok THEN snap ELSE acct,
     notify |-> ok /\ oldState # snap.state,
     current |-> IF ok THEN snap ELSE acct]

\* the continuation of "await this.sendTransaction(instruction)"
SendReturn(c) ==
    /\ calls[c].pc = "send"
    /\ gw[c].pc \in {"returned", "threw"}
    /\ gw' = [gw EXCEPT ![c] = GwIdle]
    /\ LET op == calls[c].op
           sent == [calls[c] EXCEPT !.confirmed = gw[c].pc = "returned"]
       IN  IF gw[c].pc = "threw"
           THEN \* Agent.sendTransaction: emit('error', error); throw error
                LET e1 == Emit("error", gw[c].err, "none", account)
                    thrown == IF e1.threw THEN ListenerError ELSE gw[c].err
                    out == OpCatch(op, thrown)
                IN  /\ calls' = [calls EXCEPT ![c] =
                            [sent EXCEPT !.pc = "done", !.result = out.result]]
                    /\ emitted' = <<e1>> \o out.emits
           ELSE IF op = "execute"
           THEN LET e1 == Emit("execution", TRUE, calls[c].data, account)
                    out == OpCatch(op, ListenerError)
                IN  IF e1.threw
                    THEN /\ calls' = [calls EXCEPT ![c] =
                                [sent EXCEPT !.pc = "done", !.result = out.result]]
                         /\ emitted' = <<e1>> \o out.emits
                    ELSE /\ calls' = [calls EXCEPT ![c] =
                                [sent EXCEPT !.pc = "done", !.result = OkResult]]
                         /\ emitted' = <<e1>>
           ELSE \* await this.refresh(): oldState is read, the fetch is issued
                /\ calls' = [calls EXCEPT ![c] =
                        [sent EXCEPT !.pc = "fetch", !.oldState = account.state]]
                /\ UNCHANGED emitted
    /\ UNCHANGED <<rest, remote, account, subs, lastFetch, nops, nremote>>

\* program.getAgentAccount(publicKey): the remote is read, or the fetch fails
FetchRead(c) ==
    /\ calls[c].pc = "fetch"
    /\ \/ calls' = [calls EXCEPT ![c].pc = "fetched", ![c].networked = TRUE,
                                 ![c].fetchOk = TRUE, ![c].fetched = remote]
       \/ calls' = [calls EXCEPT ![c].pc = "fetched", ![c].networked = TRUE,
                                 ![c].fetchOk = FALSE]
    /\ UNCHANGED <<rest, remote, account, gw, subs, emitted, lastFetch, nops, nremote>>

\* the error an operation throws when its refresh() threw err
RefreshFailure(op, err) ==
    LET inner == SonomaError(FailMessage("refresh"), err)
    IN  IF op = "refresh" THEN inner ELSE SonomaError(FailMessage(op), inner)

\* the continuation of refresh() after the fetch, and the end of the operation
FetchReturn(c) ==
    /\ calls[c].pc = "fetched"
    /\ LET r == RefreshComplete(account, calls[c].fetchOk, calls[c].fetched,
                                calls[c].oldState)
           e == Emit("stateChange", calls[c].oldState, r.account.state, r.current)
           op == calls[c].op
           done == [calls[c] EXCEPT !.pc = "done", !.refreshed = calls[c].fetchOk,
                                    !.emits = IF r.notify THEN @ + 1 ELSE @]
       IN  /\ account' = r.account
           /\ lastFetch' = IF calls[c].fetchOk THEN calls[c].fetched ELSE lastFetch
           /\ emitted' = IF r.notify THEN <<e>> ELSE emitted
           /\ trail' = [last |-> IF r.notify THEN e.a2 ELSE trail.last,
                        raced |-> trail.raced \/ ~calls[c].solo]
           /\ calls' = [calls EXCEPT ![c] =
                [done EXCEPT !.result =
                    IF ~calls[c].fetchOk
                    THEN Failed(RefreshFailure(op, PlainError("fetch")))
                    ELSE IF r.notify /\ e.threw
                    THEN Failed(RefreshFailure(op, ListenerError))
                    ELSE OkResult]]
    /\ UNCHANGED <<others, remote, gw, subs, nops, nremote>>

----------------------------------------------------------------------------
(* The remote account changes without this handle *)

\* changes made to the remote account while a handle is watched
MaxWatched == 2

\* the remote reports a failure, or the agent is terminated
RemoteReportsWithin(s, budget) ==
    /\ nremote < budget
    /\ remote.state \notin {s, "terminated"}
    /\ remote' = [remote EXCEPT !.state = s]
    /\ nremote' = nremote + 1
    /\ UNCHANGED <<rest, account, calls, gw, subs, emitted, lastFetch, nops>>

RemoteReports(s) == RemoteReportsWithin(s, MaxRemote)

\* a command of another client is confirmed
OtherClientWithin(op, budget) ==
    /\ nremote < budget
    /\ Accepts(remote, [op |-> op])
    /\ remote' = Apply(remote, [op |-> op])
    /\ nremote' = nremote + 1
    /\ UNCHANGED <<rest, account, calls, gw, subs, emitted, lastFetch, nops>>

OtherClient(op) == OtherClientWithin(op, MaxRemote)

----------------------------------------------------------------------------
(* Agent.create and Agent.load: handles made from accounts of the ledger *)

\* handles made in one behaviour
MaxHandles == 2

Addresses == {"addr1", "addr2"}

Names == {"Example Agent", "Second Agent"}

\* the configurations handed to create: the example's, and two that leave
\* fields unspecified
CreateConfigs ==
    { ExampleConfig,
      [autonomousMode |-> FALSE, executionLimit |-> 500],
      [autonomousMode |-> TRUE, capabilities |-> {"network"}] }

\* DEFAULT_CONFIG.agent: the documented defaults of an agent's configuration
AgentDefaults ==
    [executionLimit |-> 1000, memoryLimit |-> 10485760,
     capabilities |-> {"compute", "storage"}]

NoAccount == [exists |-> FALSE]

\* the account the initialize command leaves at address a
InitializedAt(a, name, config) ==
    [exists |-> TRUE, publicKey |-> a, name |-> name,
     config |-> Overlay(AgentDefaults, config), state |-> "initialized",
     updatedAt |-> 0]

\* an error and the chain of its causes, outermost first
Caused(message, chain) == <<message>> \o chain

LoaderIdle ==
    [op |-> "none", pc |-> "idle", via |-> "none", name |-> "none",
     config |-> ExampleConfig, address |-> "none", err |-> <<>>,
     args |-> [name |-> "none", config |-> ExampleConfig]]

CreateArgsNameless(name, config) == [name |-> "none", config |-> config]

\* the arguments create() hands to createInitializeInstruction
CreateArgs(name, config) == [name |-> name, config |-> config]

\* Agent.create / SonomaSDK.createAgent up to createAgentAccount(): a fresh
\* address is allocated, or the allocation fails
Create(via, name, config) ==
    /\ loader.pc \in {"idle", "done"}
    /\ Len(handles) < MaxHandles
    /\ LET call == [LoaderIdle EXCEPT !.op = "create", !.via = via,
                                      !.name = name, !.config = config,
                                      !.args = CreateArgs(name, config)]
       IN  \/ \E a \in Addresses :
                /\ ~ledger[a].exists
                /\ \A i \in 1..Len(handles) : handles[i].address # a
                /\ loader' = [call EXCEPT !.pc = "initialize", !.address = a]
           \/ loader' = [call EXCEPT !.pc = "failed", !.err = <<"allocate">>]
    /\ UNCHANGED <<trail, remote, account, calls, gw, subs, emitted, lastFetch,
                   nops, nremote, ledger, handles, conn, cfg>>

\* createInitializeInstruction and program.sendTransaction: the initialize
\* command is confirmed, or the instruction or the transaction fails
CreateSend ==
    /\ loader.op = "create"
    /\ loader.pc = "initialize"
    /\ \/ /\ ledger' = [ledger EXCEPT ![loader.address] =
                InitializedAt(loader.address, loader.args.name, loader.args.config)]
          /\ loader' = [loader EXCEPT !.pc = "fetch"]
       \/ /\ loader' = [loader EXCEPT !.pc = "failed", !.err = <<"transport">>]
          /\ UNCHANGED ledger
    /\ UNCHANGED <<trail, remote, account, calls, gw, subs, emitted, lastFetch,
                   nops, nremote, handles, conn, cfg>>

\* Agent.load / SonomaSDK.getAgent up to the fetch: the address is parsed
Load(via, a) ==
    /\ loader.pc \in {"idle", "done"}
    /\ Len(handles) < MaxHandles
    /\ loader' = [LoaderIdle EXCEPT !.op = "load", !.via = via, !.pc = "fetch",
                                    !.address = a]
    /\ UNCHANGED <<trail, remote, account, calls, gw, subs, emitted, lastFetch,
                   nops, nremote, ledger, handles, conn, cfg>>

\* how program.getAgentAccount(address) can end
FetchOutcomes(a) ==
    IF ledger[a].exists THEN {"found", "transport"} ELSE {"NotFound", "transport"}

\* program.getAgentAccount(publicKey) of create and of load: the account is
\* wrapped in a new handle, or the fetch throws
LoaderFetch ==
    /\ loader.pc = "fetch"
    /\ \E outcome \in FetchOutcomes(loader.address) :
         IF outcome = "found"
         THEN /\ handles' = Append(handles,
                    [via |-> loader.op, name |-> loader.name,
                     config |-> loader.config, address |-> loader.address,
                     account |-> ledger[loader.address]])
              /\ loader' = [loader EXCEPT !.pc = "done"]
         ELSE /\ loader' = [loader EXCEPT !.pc = "failed", !.err = <<outcome>>]
              /\ UNCHANGED handles
    /\ UNCHANGED <<trail, remote, account, calls, gw, subs, emitted, lastFetch,
                   nops, nremote, ledger, conn, cfg>>

LoadMessage(op) ==
    IF op = "create" THEN "Failed to create agent" ELSE "Failed to load agent"

\* the catch blocks: Agent wraps every failure in one SonomaError, and the
\* SonomaSDK method wraps that error once more
LoaderWrap(op, via, chain) ==
    IF via = "sdk"
    THEN Caused(LoadMessage(op), Caused(LoadMessage(op), chain))
    ELSE Caused(LoadMessage(op), chain)

\* the call rejects with the wrapped error
LoaderCatch ==
    /\ loader.pc = "failed"
    /\ loader' = [loader EXCEPT !.pc = "done",
                                !.err = LoaderWrap(loader.op, loader.via, loader.err)]
    /\ UNCHANGED <<trail, remote, account, calls, gw, subs, emitted, lastFetch,
                   nops, nremote, ledger, handles, conn, cfg>>

\* another client's update of an account of the ledger is confirmed
LedgerUpdated(a) ==
    /\ nremote < MaxRemote
    /\ ledger[a].exists
    /\ ledger' = [ledger EXCEPT ![a].config.executionLimit = 1,
                                ![a].updatedAt = @ + 1]
    /\ nremote' = nremote + 1
    /\ UNCHANGED <<trail, remote, account, calls, gw, subs, emitted, lastFetch,
                   nops, loader, handles, conn, cfg>>

----------------------------------------------------------------------------
(* Connection: subscriptions and disconnect *)

\* subscriptions opened on one connection
MaxSubscriptions == 3

\* notifications pushed to one connection
MaxPushes == 3

SubscriptionKinds == {"account", "programAccounts"}

Commitments == {"processed", "confirmed", "finalized"}

\* new Connection(endpoint, commitmentOrConfig, config): the second argument
\* goes to the base class, and this.config.commitment is taken from the third
\* argument, 'confirmed' when that one gives none
ConstructConnection(commitmentOrConfig, configCommitment) ==
    [socket |-> "closed", listeners |-> {}, nextId |-> 0, disconnected |-> FALSE,
     late |-> {}, pushes |-> 0, err |-> NoError,
     given |-> commitmentOrConfig, third |-> configCommitment,
     commitment |-> IF configCommitment = "unset" THEN "confirmed"
                    ELSE configCommitment]

\* the connection as its constructor leaves it, the arguments defaulted
ConnFresh == ConstructConnection("confirmed", "unset")

\* the level sendAndConfirmTransaction passes to getLatestBlockhash, as
\* preflightCommitment and to confirmTransaction
UsedCommitment == conn.commitment

SubscribeMessage(kind) ==
    IF kind = "account" THEN "Failed to subscribe to account"
    ELSE "Failed to subscribe to program"

\* subscribeAccount / subscribeProgramAccounts: onAccountChange or
\* onProgramAccountChange registers the callback under a new id and the socket
\* is opened for it, or the registration throws
Subscribe(kind) ==
    /\ conn.nextId < MaxSubscriptions
    /\ \/ conn' = [conn EXCEPT
                !.listeners = @ \cup {[id |-> conn.nextId, kind |-> kind,
                                      outlived |-> FALSE]},
                !.nextId = @ + 1, !.socket = "open", !.err = NoError]
       \/ conn' = [conn EXCEPT
                !.err = SonomaError(SubscribeMessage(kind), PlainError("subscribe"))]
    /\ UNCHANGED <<trail, remote, account, calls, gw, subs, emitted, lastFetch,
                   nops, nremote, ledger, loader, handles, cfg>>

\* what disconnect() leaves when nothing throws: the socket is closed; the
\* registered callbacks are not removed
DisconnectClosing(c) ==
    [c EXCEPT !.socket = "closed", !.disconnected = TRUE,
              !.listeners = {[l EXCEPT !.outlived = TRUE] : l \in @},
              !.err = NoError]

\* disconnect(): _rpcWebSocket.close(), or the close throws
Disconnect ==
    /\ \/ conn' = DisconnectClosing(conn)
       \/ conn' = [conn EXCEPT
                !.err = SonomaError("Failed to disconnect", PlainError("close"))]
    /\ UNCHANGED <<trail, remote, account, calls, gw, subs, emitted, lastFetch,
                   nops, nremote, ledger, loader, handles, cfg>>

\* the socket client connects again while callbacks are registered
SocketReopens ==
    /\ conn.socket = "closed"
    /\ conn.listeners # {}
    /\ conn' = [conn EXCEPT !.socket = "open"]
    /\ UNCHANGED <<trail, remote, account, calls, gw, subs, emitted, lastFetch,
                   nops, nremote, ledger, loader, handles, cfg>>

\* a remote mutation is pushed over the open socket: the callback of a
\* registered subscription fires
Push ==
    /\ conn.socket = "open"
    /\ conn.pushes < MaxPushes
    /\ \E l \in conn.listeners :
         conn' = [conn EXCEPT !.pushes = @ + 1,
                              !.late = IF l.outlived THEN @ \cup {l.id} ELSE @]
    /\ UNCHANGED <<trail, remote, account, calls, gw, subs, emitted, lastFetch,
                   nops, nremote, ledger, loader, handles, cfg>>

----------------------------------------------------------------------------
(* types/config.ts: DEFAULT_CONFIG and validateConfig *)

Sections == {"network", "agent", "program", "settings"}

DEFAULT_CONFIG ==
    [network |->
        [endpoint |-> "https://api.mainnet-beta.solana.com",
         commitment |-> "confirmed", timeout |-> 30000, maxRetries |-> 3],
     agent |->
        [executionLimit |-> 1000, memoryLimit |-> 1024 * 1024 * 10,
         defaultCapabilities |-> {"compute", "storage"},
         retry |-> [maxAttempts |-> 3, baseDelay |-> 1000, maxDelay |-> 10000,
                    backoffFactor |-> 2],
         performance |-> [maxExecutionTime |-> 5000, maxComputeUnits |-> 200000,
                          successRateThreshold |-> 95]],
     program |->
        [programId |-> "", computeBudget |-> 200000, prefetchAccounts |-> TRUE,
         batchSize |-> 100],
     settings |->
        [logLevel |-> "info", debug |-> FALSE, telemetry |-> TRUE,
         cache |-> [enabled |-> TRUE, ttl |-> 300000, maxSize |-> 1000]]]

\* the options that are objects themselves, per section
NestedOptions(s) ==
    CASE s = "agent" -> {"retry", "performance"}
      [] s = "settings" -> {"cache"}
      [] OTHER -> {}

\* { ...DEFAULT_CONFIG[s], ...config[s] }: config[s] may be undefined
SectionOf(config, s) ==
    Overlay(DEFAULT_CONFIG[s], IF s \in DOMAIN config THEN config[s] ELSE NoPartial)

validateConfig(config) ==
    [k \in Sections \cup DOMAIN config |->
        IF k \in Sections THEN SectionOf(config, k) ELSE config[k]]

\* the section objects a caller gives
NetworkParts ==
    { [timeout |-> 5000],
      [endpoint |-> "http://localhost:8899", maxRetries |-> 5] }

AgentParts ==
    { [executionLimit |-> 2000],
      [retry |-> [maxAttempts |-> 5]],
      [performance |-> [maxExecutionTime |-> 100], memoryLimit |-> 4096],
      [retry |-> [maxAttempts |-> 1, baseDelay |-> 10, maxDelay |-> 100,
                  backoffFactor |-> 3]] }

ProgramParts ==
    { [programId |-> "Agent1111"], [batchSize |-> 10, prefetchAccounts |-> FALSE] }

SettingsParts ==
    { [debug |-> TRUE],
      [cache |-> [enabled |-> FALSE]],
      [logLevel |-> "debug", cache |-> [ttl |-> 1000, maxSize |-> 10, enabled |-> TRUE]] }

\* no validateConfig call made yet
CfgNone == [called |-> FALSE, input |-> NoPartial, output |-> DEFAULT_CONFIG]

\* validateConfig(config) for a partial configuration holding some sections
ValidateConfig ==
    /\ \E given \in SUBSET Sections, n \in NetworkParts, a \in AgentParts,
          p \in ProgramParts, s \in SettingsParts :
         LET config == [k \in given |->
                            CASE k = "network" -> n
                              [] k = "agent" -> a
                              [] k = "program" -> p
                              [] OTHER -> s]
         IN  cfg' = [called |-> TRUE, input |-> config,
                     output |-> validateConfig(config)]
    /\ UNCHANGED <<trail, remote, account, calls, gw, subs, emitted, lastFetch,
                   nops, nremote, ledger, loader, handles, conn>>

----------------------------------------------------------------------------
(* Specifications *)

\* the handle as Agent.create() returns it: its snapshot is the account just
\* fetched, and no subscriber is registered yet
Init ==
    /\ remote = InitialAccount
    /\ account = remote
    /\ lastFetch = remote
    /\ calls = [c \in Callers |-> CallIdle]
    /\ gw = [c \in Callers |-> GwIdle]
    /\ subs = [ch \in Channels |-> <<>>]
    /\ emitted = <<>>
    /\ nops = 0
    /\ nremote = 0
    /\ ledger = [a \in Addresses |-> NoAccount]
    /\ loader = LoaderIdle
    /\ handles = <<>>
    /\ conn = ConnFresh
    /\ cfg = CfgNone
    /\ trail = [last |-> account.state, raced |-> FALSE]

\* the caller of the serial use: each operation is awaited before the next
Serial == {"c1"}

Next ==
    \/ \E c \in Serial : Pause(c)
    \/ \E c \in Serial : Resume(c)
    \/ \E c \in Serial : UpdateConfig(c)
    \/ \E c \in Serial : Execute(c)
    \/ \E c \in Serial : Refresh(c)
    \/ \E c \in Serial : Build(c)
    \/ \E c \in Serial : GwSubmit(c)
    \/ \E c \in Serial : GwConfirm(c)
    \/ \E c \in Serial : SendReturn(c)
    \/ \E c \in Serial : FetchRead(c)
    \/ \E c \in Serial : FetchReturn(c)
    \/ \E ch \in Channels, b \in Behaviours : On(ch, b)
    \/ \E s \in {"error", "terminated"} : RemoteReports(s)
    \/ \E op \in {"execute", "pause", "resume"} : OtherClient(op)

Spec == Init /\ [][Next]_vars

\* operations of the two callers overlap on the one handle; no subscriber
\* is registered
NextOverlap ==
    \/ \E c \in Callers : Pause(c)
    \/ \E c \in Callers : Resume(c)
    \/ \E c \in Callers : UpdateConfig(c)
    \/ \E c \in Callers : Execute(c)
    \/ \E c \in Callers : Refresh(c)
    \/ \E c \in Callers : Build(c)
    \/ \E c \in Callers : GwSubmit(c)
    \/ \E c \in Callers : GwConfirm(c)
    \/ \E c \in Callers : SendReturn(c)
    \/ \E c \in Callers : FetchRead(c)
    \/ \E c \in Callers : FetchReturn(c)
    \/ \E s \in {"error", "terminated"} : RemoteReports(s)
    \/ \E op \in {"execute", "pause", "resume"} : OtherClient(op)

SpecOverlap == Init /\ [][NextOverlap]_vars

\* the gateway used directly: the three retried calls of Connection
NextGateway ==
    \/ \E c \in Callers : GwCall(c)
    \/ \E c \in Callers : GwSubmit(c)
    \/ \E c \in Callers : GwConfirm(c)
    \/ \E c \in Callers : GwQuery(c)
    \/ \E c \in Callers : GwDone(c)

SpecGateway == Init /\ [][NextGateway]_vars

\* the serial use with no subscriber, the remote account changing twice
NextWatch ==
    \/ \E c \in Serial : Pause(c)
    \/ \E c \in Serial : Resume(c)
    \/ \E c \in Serial : UpdateConfig(c)
    \/ \E c \in Serial : Execute(c)
    \/ \E c \in Serial : Refresh(c)
    \/ \E c \in Serial : Build(c)
    \/ \E c \in Serial : GwSubmit(c)
    \/ \E c \in Serial : GwConfirm(c)
    \/ \E c \in Serial : SendReturn(c)
    \/ \E c \in Serial : FetchRead(c)
    \/ \E c \in Serial : FetchReturn(c)
    \/ \E s \in {"error", "terminated"} : RemoteReportsWithin(s, MaxWatched)
    \/ \E op \in {"execute", "pause", "resume"} : OtherClientWithin(op, MaxWatched)

SpecWatch == Init /\ [][NextWatch]_vars

\* the accounts a handle made by Agent.load() can wrap: a running agent, a
\* paused one
LoadedAccounts ==
    { Apply(InitialAccount, [op |-> "execute"]),
      Apply(Apply(InitialAccount, [op |-> "execute"]), [op |-> "pause"]) }

InitRace ==
    /\ remote \in LoadedAccounts
    /\ account = remote
    /\ lastFetch = remote
    /\ calls = [c \in Callers |-> CallIdle]
    /\ gw = [c \in Callers |-> GwIdle]
    /\ subs = [ch \in Channels |-> <<>>]
    /\ emitted = <<>>
    /\ nops = 0
    /\ nremote = 0
    /\ ledger = [a \in Addresses |-> NoAccount]
    /\ loader = LoaderIdle
    /\ handles = <<>>
    /\ conn = ConnFresh
    /\ cfg = CfgNone
    /\ trail = [last |-> account.state, raced |-> FALSE]

\* pause() and resume() calls of the two callers overlap on a loaded handle
NextRace ==
    \/ \E c \in Callers : Pause(c)
    \/ \E c \in Callers : Resume(c)
    \/ \E c \in Callers : Build(c)
    \/ \E c \in Callers : GwSubmit(c)
    \/ \E c \in Callers : GwConfirm(c)
    \/ \E c \in Callers : SendReturn(c)
    \/ \E c \in Callers : FetchRead(c)
    \/ \E c \in Callers : FetchReturn(c)

SpecRace == InitRace /\ [][NextRace]_vars

\* the gateway calls on a connection constructed with any commitment
InitCommitment ==
    /\ remote = InitialAccount
    /\ account = remote
    /\ lastFetch = remote
    /\ calls = [c \in Callers |-> CallIdle]
    /\ gw = [c \in Callers |-> GwIdle]
    /\ subs = [ch \in Channels |-> <<>>]
    /\ emitted = <<>>
    /\ nops = 0
    /\ nremote = 0
    /\ ledger = [a \in Addresses |-> NoAccount]
    /\ loader = LoaderIdle
    /\ handles = <<>>
    /\ conn \in {ConstructConnection(a, t) :
                    a \in Commitments, t \in Commitments \cup {"unset"}}
    /\ cfg = CfgNone
    /\ trail = [last |-> account.state, raced |-> FALSE]

SpecCommitment == InitCommitment /\ [][NextGateway]_vars

\* handles are created and loaded; other clients update the accounts
NextLoad ==
    \/ \E via \in {"agent", "sdk"}, name \in Names, config \in CreateConfigs :
            Create(via, name, config)
    \/ CreateSend
    \/ \E via \in {"agent", "sdk"}, a \in Addresses : Load(via, a)
    \/ LoaderFetch
    \/ LoaderCatch
    \/ \E a \in Addresses : LedgerUpdated(a)

SpecLoad == Init /\ [][NextLoad]_vars

\* subscriptions are opened on a connection that is disconnected at some time
NextSubscriptions ==
    \/ \E kind \in SubscriptionKinds : Subscribe(kind)
    \/ Disconnect
    \/ SocketReopens
    \/ Push

SpecSubscriptions == Init /\ [][NextSubscriptions]_vars

\* validateConfig applied to the partial configurations
NextConfig == ValidateConfig

SpecConfig == Init /\ [][NextConfig]_vars

----------------------------------------------------------------------------
(* Properties *)

GuardViolated(call) ==
    \/ call.op = "pause" /\ call.startState # "running"
    \/ call.op = "resume" /\ call.startState = "running"

\* C1: pause() on a handle whose state is not Running, and resume() on a
\* handle whose state is Running, fail with the precondition error without
\* building or submitting a command and without fetching, and the step that
\* rejects the call leaves the snapshot and the remote account as they were.
C1_GuardRejectsWithoutNetwork ==
    /\ [](\A c \in Callers :
            GuardViolated(calls[c]) =>
                /\ calls[c].pc = "done"
                /\ calls[c].result = Failed(PlainError(GuardMessage(calls[c].op)))
                /\ ~calls[c].networked
                /\ calls[c].cmd.op = "none"
                /\ gw[c].pc = "idle")
    /\ [][\A c \in Callers :
            (calls'[c] # calls[c] /\ GuardViolated(calls'[c])) =>
                (account' = account /\ remote' = remote /\ gw' = gw)]_vars

C1_Witness ==
    \E c \in Callers :
        /\ calls[c].op = "resume"
        /\ calls[c].startState = "running"
        /\ calls[c].pc = "done"
        /\ calls[c].prev.op = "refresh"

\* C2: on a freshly created handle, with no other party touching the account,
\* a successful first execute() is followed by metrics 1/1, and a pause()
\* called next is accepted and leaves getState() Paused when it succeeds,
\* and a resume() called after that pause is accepted likewise.
C2_ExecuteThenPauseResume ==
    \A c \in Callers :
        /\ (nops = 1 /\ nremote = 0 /\ calls[c].op = "execute"
            /\ calls[c].pc = "done" /\ calls[c].result.ok)
           => (getMetrics.totalExecutions = 1 /\ getMetrics.successfulExecutions = 1)
        /\ (nops = 2 /\ nremote = 0 /\ calls[c].op = "pause"
            /\ calls[c].prev.op = "execute" /\ calls[c].prev.ok
            /\ calls[c].pc = "done")
           => /\ calls[c].result # Failed(PlainError(GuardMessage("pause")))
              /\ calls[c].result.ok => getState = "paused"

\* C3: a refresh whose fetch answered publishes exactly one stateChange when
\* the fetched state differs from the state the snapshot had when the refresh
\* started, and none when it does not differ.
C3_OneStateChangePerRefresh ==
    \A c \in Callers :
        (calls[c].pc = "done" /\ calls[c].refreshed) =>
            calls[c].emits =
                IF calls[c].fetched.state # calls[c].oldState THEN 1 ELSE 0

C3_Witness ==
    \E c \in Callers :
        /\ calls[c].op = "refresh"
        /\ calls[c].pc = "done"
        /\ calls[c].refreshed
        /\ calls[c].emits = 1
        /\ ~calls[c].solo

\* C4: when a stateChange(old, new) is delivered, the fetched snapshot is
\* already the current one: getState() read by a subscriber is 'new'.
C4_SubscriberSeesNewState ==
    \A i \in 1..Len(emitted) :
        emitted[i].chan = "stateChange" =>
            /\ emitted[i].seen = emitted[i].a2
            /\ emitted[i].a1 # emitted[i].a2

C4_Witness ==
    \E i \in 1..Len(emitted) :
        /\ emitted[i].chan = "stateChange"
        /\ emitted[i].got # {}
        /\ emitted[i].a1 = "running"
        /\ emitted[i].a2 = "paused"

\* C5: a confirmed execute publishes execution(true, payload); a failed one
\* publishes execution(false, cause) and throws the execute failure wrapping
\* that cause.
C5_ExecutionNotification ==
    \A c \in Callers :
        (calls[c].op = "execute" /\ calls[c].pc = "done") =>
            IF calls[c].confirmed
            THEN /\ Len(emitted) >= 1
                 /\ emitted[1].chan = "execution"
                 /\ emitted[1].a1 = TRUE
                 /\ emitted[1].a2 = calls[c].data
            ELSE /\ Len(emitted) >= 1
                 /\ emitted[Len(emitted)].chan = "execution"
                 /\ emitted[Len(emitted)].a1 = FALSE
                 /\ calls[c].result =
                        Failed(SonomaError(FailMessage("execute"),
                                           emitted[Len(emitted)].a2))

\* C6: when an operation has failed, at whatever stage, the current snapshot
\* is the snapshot of the latest successful fetch.
C6_FailureKeepsLastFetched ==
    \A c \in Callers :
        (calls[c].pc = "done" /\ ~calls[c].result.ok) => account = lastFetch

C6_Witness ==
    \E c \in Callers :
        /\ calls[c].op = "updateConfig"
        /\ calls[c].pc = "done"
        /\ ~calls[c].result.ok
        /\ calls[c].confirmed
        /\ ~calls[c].fetchOk
        /\ remote.config # account.config

\* C7: the update command carries the whole configuration, the fields of the
\* partial laid over the snapshot's, and with the remote replacing its
\* configuration by it a later refresh shows exactly that configuration.
C7_UpdateCarriesMergedConfig ==
    \A c \in Callers :
        /\ (calls[c].op = "updateConfig" /\ calls[c].pc # "idle") =>
            /\ DOMAIN calls[c].cmd.config = DOMAIN calls[c].startConfig
            /\ \A f \in DOMAIN calls[c].startConfig :
                 calls[c].cmd.config[f] =
                    IF f \in DOMAIN calls[c].partial
                    THEN calls[c].partial[f] ELSE calls[c].startConfig[f]
        /\ (calls[c].op = "updateConfig" /\ calls[c].pc = "done" /\ calls[c].result.ok)
            => getConfig = calls[c].cmd.config
        /\ (calls[c].op = "refresh" /\ calls[c].pc = "done" /\ calls[c].refreshed
            /\ calls[c].prev.op = "updateConfig" /\ calls[c].prev.confirmed)
            => getConfig = calls[c].prev.cmd.config

C7_Witness ==
    \E c \in Callers :
        /\ calls[c].op = "refresh"
        /\ calls[c].pc = "done"
        /\ calls[c].refreshed
        /\ calls[c].prev.op = "updateConfig"
        /\ calls[c].prev.confirmed
        /\ ~calls[c].prev.ok
        /\ getConfig.executionLimit = 2000
        /\ getConfig.memoryLimit = ExampleConfig.memoryLimit
        /\ getConfig.capabilities = ExampleConfig.capabilities
        /\ getConfig.autonomousMode = ExampleConfig.autonomousMode

\* C8: a retried gateway call that returns has made one attempt more than the
\* failures before it, fewer than three of them; one that throws has made
\* exactly three attempts, all failed, and throws the last failure.
C8_AttemptsOfRetriedCall ==
    \A c \in Callers :
        /\ gw[c].pc = "returned" =>
            (gw[c].attempt = gw[c].fails + 1 /\ gw[c].fails < 3)
        /\ gw[c].pc = "threw" =>
            /\ gw[c].attempt = 3
            /\ gw[c].fails = 3
            /\ gw[c].err.msg = WrapperOf(gw[c].method)
        /\ gw[c].pc \in {"submit", "confirm", "query"} =>
            (gw[c].attempt = gw[c].fails + 1 /\ gw[c].attempt <= 3)

C8_Witness ==
    /\ \E c \in Callers :
        gw[c].pc = "returned" /\ gw[c].fails = 2
            /\ gw[c].method = "sendAndConfirmTransaction"
    /\ \E c \in Callers :
        gw[c].pc = "threw" /\ gw[c].method = "getMultipleAccounts"

\* C9: a retried gateway call that ends with a non-transient failure (here a
\* signing failure, no signer being given) has made a single attempt.
C9_NonTransientNotRetried ==
    \A c \in Callers :
        (gw[c].pc = "threw" /\ gw[c].err.cause \in NonTransientCauses) =>
            gw[c].attempt = 1

\* C10: every notification reaches all the subscribers registered on its
\* channel, whether or not one of them throws.
C10_DeliveredToAllSubscribers ==
    \A i \in 1..Len(emitted) : emitted[i].got = 1..emitted[i].n

MutatingOps == {"updateConfig", "execute", "pause", "resume"}

\* C11: resume() on a handle whose state is Initialized is not rejected by the
\* local precondition: it submits the resume command, and when the call
\* succeeds the handle's state is Running.
C11_ResumeFromInitialized ==
    \A c \in Callers :
        (calls[c].op = "resume" /\ calls[c].startState = "initialized") =>
            /\ calls[c].result # Failed(PlainError(GuardMessage("resume")))
            /\ calls[c].cmd.op = "resume"
            /\ (calls[c].pc = "done" /\ calls[c].result.ok) => getState = "running"

\* C12: on a handle whose state is Terminated, updateConfig, execute, pause
\* and resume fail, and no command of theirs reaches the network.
C12_TerminatedAcceptsNothing ==
    \A c \in Callers :
        (calls[c].op \in MutatingOps /\ calls[c].startState = "terminated") =>
            /\ ~calls[c].networked
            /\ gw[c].pc = "idle"
            /\ calls[c].pc = "done" => ~calls[c].result.ok

\* the transition table: the (old, new) pairs it declares
Declared(old, new) ==
    \/ old \in {"initialized", "paused"} /\ new = "running"
    \/ old = "running" /\ new = "paused"
    \/ new \in {"error", "terminated"}

RECURSIVE ReachableWithin(_, _)
\* the states reached from the states S by at most k declared transitions
ReachableWithin(S, k) ==
    IF k = 0 THEN S
    ELSE ReachableWithin(
            S \cup {new \in AgentState : \E old \in S : Declared(old, new)}, k - 1)

\* new follows old along one or more declared transitions
Composed(old, new) ==
    \E mid \in AgentState :
        /\ Declared(old, mid)
        /\ new \in ReachableWithin({mid}, Cardinality(AgentState))

\* C13 as stated: every change of the handle's lifecycle state, and every
\* (old, new) pair published by stateChange, is one declared transition.
C13_EveryChangeDeclared ==
    /\ [](\A i \in 1..Len(emitted) :
            emitted[i].chan = "stateChange" =>
                Declared(emitted[i].a1, emitted[i].a2))
    /\ [][account'.state # account.state =>
            Declared(account.state, account'.state)]_vars

\* C13: with the operations of a handle awaited one at a time, every change of
\* the handle's lifecycle state, and every (old, new) pair published by
\* stateChange, follows one or more declared transitions: the handle samples
\* the remote state at its fetches and can skip the states in between.
C13_EveryChangeComposed ==
    /\ [](\A i \in 1..Len(emitted) :
            emitted[i].chan = "stateChange" =>
                Composed(emitted[i].a1, emitted[i].a2))
    /\ [][account'.state # account.state =>
            Composed(account.state, account'.state)]_vars

\* a lone refresh() publishes (initialized, paused): the agent was run and
\* paused by another client between two fetches
C13_Witness ==
    /\ nops = 1
    /\ \E c \in Callers : calls[c].op = "refresh" /\ calls[c].pc = "done"
    /\ Len(emitted) = 1
    /\ emitted[1].chan = "stateChange"
    /\ emitted[1].a1 = "initialized"
    /\ emitted[1].a2 = "paused"
    /\ account.state = "paused"

\* C14 as stated: the executionCount of the current snapshot never decreases,
\* calls whose fetches overlap included.
C14_CountNeverDecreases ==
    [][account'.executionCount >= account.executionCount]_vars

\* C14: the remote count never decreasing, a call that no other call of the
\* handle overlaps never makes the executionCount of the current snapshot
\* decrease.
C14_CountNeverDecreasesAwaited ==
    /\ [][remote'.executionCount >= remote.executionCount]_vars
    /\ [][\A c \in Callers :
            (calls[c].pc = "fetched" /\ calls'[c].pc = "done" /\ calls[c].solo)
                => account'.executionCount >= account.executionCount]_vars

C14_Witness ==
    \E c \in Callers :
        /\ calls[c].op \in {"refresh", "updateConfig"}
        /\ calls[c].pc = "done"
        /\ calls[c].solo
        /\ calls[c].refreshed
        /\ calls[c].prev.op \in {"refresh", "updateConfig"}
        /\ account.executionCount = 1
        /\ account = calls[c].fetched

\* C19: a pause() (or resume()) started while another pause() (or resume())
\* of the same handle is in flight, the snapshot being the one that call
\* checked, is neither rejected nor held back: it passes the precondition on
\* the same snapshot state and goes on to build and submit its command.
C19_OverlappingCallsBothPass ==
    /\ [][\A c \in Callers : \A d \in Callers \ {c} :
            (/\ calls[c].op \in {"pause", "resume"}
             /\ calls[c].pc \notin {"idle", "done"}
             /\ calls[d].pc \in {"idle", "done"}
             /\ account.state = calls[c].startState
             /\ calls'[d] # calls[d]
             /\ calls'[d].op = calls[c].op)
            => /\ calls'[d].pc = "build"
               /\ calls'[d].startState = calls[c].startState
               /\ calls'[d].cmd = calls[c].cmd]_vars
    /\ [](\A c \in Callers :
            (calls[c].op \in {"pause", "resume"} /\ calls[c].pc = "send") =>
                (gw[c].pc # "idle" /\ gw[c].cmd.op = calls[c].op))

\* both pause() calls passed the check on the Running snapshot and both sent
\* their command: the first was confirmed, the second is at the gateway
C19_Witness ==
    /\ \A c \in Callers :
        /\ calls[c].op = "pause"
        /\ calls[c].startState = "running"
        /\ calls[c].networked
        /\ ~calls[c].solo
    /\ \E c \in Callers : calls[c].confirmed
    /\ \E c \in Callers : calls[c].pc = "send" /\ gw[c].fails >= 1

\* C20: a mutating operation that has returned successfully was confirmed,
\* then fetched the account and made the fetched snapshot the current one.
C20_SuccessMeansRefreshed ==
    \A c \in Callers :
        (calls[c].op \in MutatingOps /\ calls[c].pc = "done" /\ calls[c].result.ok)
            => /\ calls[c].confirmed
               /\ calls[c].refreshed
               /\ account = calls[c].fetched

\* C15: a load() that failed because the address has no account throws a
\* NotFound error, and one that failed for another cause throws the load
\* failure, so the two are told apart by the error thrown.
C15_LoadTellsNotFound ==
    (loader.op = "load" /\ loader.pc = "done" /\ loader.err # <<>>) =>
        Head(loader.err) =
            IF loader.err[Len(loader.err)] = "NotFound" THEN "NotFound"
            ELSE LoadMessage("load")

C17_DisconnectReleases ==
    conn.disconnected =>
        /\ \A l \in conn.listeners : ~l.outlived
        /\ conn.late = {}

\* C18: in the result of validateConfig every option of the four sections,
\* at every nesting level, has the caller's value when the caller gave one
\* and the value of DEFAULT_CONFIG otherwise.
C18_DeepMergeOverDefaults ==
    cfg.called =>
        \A s \in Sections : \A f \in DOMAIN DEFAULT_CONFIG[s] :
            LET given == s \in DOMAIN cfg.input /\ f \in DOMAIN cfg.input[s]
            IN  /\ f \in DOMAIN cfg.output[s]
                /\ IF f \in NestedOptions(s)
                   THEN \A g \in DOMAIN DEFAULT_CONFIG[s][f] :
                            /\ g \in DOMAIN cfg.output[s][f]
                            /\ cfg.output[s][f][g] =
                                IF given /\ g \in DOMAIN cfg.input[s][f]
                                THEN cfg.input[s][f][g]
                                ELSE DEFAULT_CONFIG[s][f][g]
                   ELSE cfg.output[s][f] =
                            IF given THEN cfg.input[s][f] ELSE DEFAULT_CONFIG[s][f]

\* C21: the current snapshot is always the value the handle's latest
\* successful fetch returned, a value read from the remote account at the
\* handle's address; it changes only when a fetch completes, and its address
\* never changes.
C21_SnapshotIsFetched ==
    /\ [](account = lastFetch /\ account.publicKey = InitialAccount.publicKey)
    /\ [][account' # account =>
            \E c \in Callers :
                /\ calls[c].pc = "fetched"
                /\ calls[c].fetchOk
                /\ account' = calls[c].fetched]_vars
    /\ [][\A c \in Callers :
            (calls[c].pc = "fetch" /\ calls'[c].pc = "fetched" /\ calls'[c].fetchOk)
                => calls'[c].fetched = remote]_vars

C21_Witness ==
    \E c \in Callers :
        /\ calls[c].op = "pause"
        /\ calls[c].pc = "done"
        /\ calls[c].result.ok
        /\ account.state = "paused"
        /\ account = calls[c].fetched
        /\ account # InitialAccount

\* C22: one call of a mutating operation has its command accepted by the
\* remote at most once, whatever attempts the retried gateway call makes.
C22_AppliedAtMostOnce ==
    \A c \in Callers : gw[c].accepted <= 1

\* a refresh completes in this step and publishes a stateChange
Publishes(c) ==
    /\ calls[c].pc = "fetched"
    /\ calls'[c].pc = "done"
    /\ calls'[c].emits = calls[c].emits + 1

Quiet == \A c \in Callers : calls[c].pc \in {"idle", "done"}

\* C23 as stated: the old value of every stateChange is the new value of the
\* previous one (the initial state for the first), and with no operation in
\* flight the new value of the last one is getState(), overlapping calls
\* included.
C23_ChangesFormChain ==
    /\ [][\A c \in Callers : Publishes(c) => emitted'[1].a1 = trail.last]_vars
    /\ [](Quiet => trail.last = getState)

\* C23: as long as the calls of a handle are awaited one at a time (no call
\* has overlapped another), the old value of every stateChange is the new
\* value of the previous one (the initial state for the first), and with no
\* operation in flight the new value of the last one is getState().
C23_AwaitedChangesFormChain ==
    /\ [][\A c \in Callers :
            (Publishes(c) /\ ~trail'.raced) => emitted'[1].a1 = trail.last]_vars
    /\ []((Quiet /\ ~trail.raced) => trail.last = getState)

C23_Witness ==
    \E c \in Callers :
        /\ calls[c].op = "pause"
        /\ calls[c].pc = "done"
        /\ calls[c].emits = 1
        /\ calls[c].oldState = "running"
        /\ calls[c].prev.op = "refresh"
        /\ ~trail.raced
        /\ trail.last = "paused"
        /\ getState = "paused"

\* C24: an execute() that has ended published exactly one execution
\* notification, with success = true exactly when the command was confirmed,
\* and it throws exactly when the command was not confirmed.
C24_OneExecutionNotification ==
    \A c \in Callers :
        (calls[c].op = "execute" /\ calls[c].pc = "done") =>
            LET notes == {i \in 1..Len(emitted) : emitted[i].chan = "execution"}
            IN  /\ Cardinality(notes) = 1
                /\ \A i \in notes : emitted[i].a1 = calls[c].confirmed
                /\ calls[c].result.ok = calls[c].confirmed

\* C25: a create() that has failed left no initialized account at the address
\* it allocated.
C25_FailedCreateLeavesNothing ==
    (loader.op = "create" /\ loader.pc = "done" /\ loader.err # <<>>
     /\ loader.address \in Addresses)
        => ~ledger[loader.address].exists

\* C26: on a connection constructed with a commitment as second argument and
\* no third argument, sendAndConfirmTransaction fetches the blockhash,
\* preflights and confirms at that commitment.
C26_CommitmentAsConstructed ==
    \A c \in Callers :
        (/\ conn.third = "unset"
         /\ gw[c].method = "sendAndConfirmTransaction"
         /\ gw[c].pc \in {"submit", "confirm", "returned"})
        => UsedCommitment = conn.given

====
